---- MODULE Spec2Model ----
(***************************************************************************)
(* The validate-then-execute pipeline of the repository:                   *)
(*   src/validation_module/strategy_validator.py  StrategyValidator        *)
(*   src/strategy_execution.py                    StrategyExecution        *)
(*                                                                         *)
(* A behaviour is a caller holding one strategy dict (never mutated by the *)
(* core) and making up to MaxCalls calls on it, each one of                *)
(*   validator.validate(strategy)                                          *)
(*   execution.execute_strategy(strategy)                                  *)
(*   execution._prepare_execution_params(strategy)                         *)
(* execute_strategy is modelled statement by statement (pc), so that the   *)
(* order validate -> check -> prepare -> sink -> except is observable.     *)
(*                                                                         *)
(* Python values are records [t, chars, num]:                              *)
(*   t = "none"            None                                            *)
(*   t = "str"             a str, chars its characters                     *)
(*   t = "num"             an int/float, num its value in tenths           *)
(*                                                                         *)
(* Assumptions: assert statements are enabled (no -O); the names the       *)
(* validator module uses without binding them in the lines present         *)
(* (logging, StrategyValidationResult) are bound; the executor raises only *)
(* subclasses of Exception.                                                *)
(***************************************************************************)
EXTENDS Integers, Sequences, FiniteSets

\* Calls the caller makes in one behaviour.
MaxCalls == 3
\* Last value of the wall clock (datetime.now()).
MaxClock == 1

VARIABLES
    strategy,           \* the caller's dict: a function from its keys to values
    riskCap,            \* the configured risk policy behind _assess_risk
    pc,                 \* position inside the current call
    op,                 \* the method the caller invoked
    validation_result,  \* execute_strategy's local (line 34), or the outcome of a direct validate
    execution_params,   \* execute_strategy's local (line 40): <<>> or <<params>>
    pending,            \* the exception in flight towards `except Exception` (line 47)
    ret,                \* how the current call ended: a return value or a raised exception
    log,                \* the records handed to the logger
    clock,              \* the wall clock
    callClock,          \* the wall clock when the current call was entered
    prepEntered,        \* times _prepare_execution_params was entered in the current call
    sinkCalls,          \* the params executor.execute received in the current call
    sinkRaised,         \* whether executor.execute raised in the current call
    history             \* the completed calls, oldest first

vars == <<strategy, riskCap, pc, op, validation_result, execution_params, pending,
          ret, log, clock, callClock, prepEntered, sinkCalls, sinkRaised, history>>

----------------------------------------------------------------------------
\* Python values

Val(t, chars, num) == [t |-> t, chars |-> chars, num |-> num]
NoneV == Val("none", <<>>, 0)
Str(chars) == Val("str", chars, 0)
Num(tenths) == Val("num", <<>>, tenths)

\* bool(v): the truth value Python's all([...]) tests.
Truthy(v) ==
    CASE v.t = "none" -> FALSE
      [] v.t = "str"  -> v.chars # <<>>
      [] v.t = "num"  -> v.num # 0

Digits == {"0", "1", "2", "3", "4", "5", "6", "7", "8", "9"}

RECURSIVE LStrip(_)
LStrip(cs) == IF cs # <<>> /\ Head(cs) = " " THEN LStrip(Tail(cs)) ELSE cs

RECURSIVE RStrip(_)
RStrip(cs) ==
    IF cs # <<>> /\ cs[Len(cs)] = " " THEN RStrip(SubSeq(cs, 1, Len(cs) - 1)) ELSE cs

\* digits [ "." [digits] ] | "." digits
IsDecimal(cs) ==
    /\ \A i \in 1..Len(cs) : cs[i] \in Digits \cup {"."}
    /\ Cardinality({i \in 1..Len(cs) : cs[i] = "."}) <= 1
    /\ \E i \in 1..Len(cs) : cs[i] \in Digits

\* The strings float() accepts: surrounding blanks, a sign, then nan, inf,
\* infinity or a decimal (exponents and digit separators are not in the
\* strings of the model).
IsFloatLiteral(chars) ==
    LET s == RStrip(LStrip(chars))
        body == IF s # <<>> /\ Head(s) \in {"+", "-"} THEN Tail(s) ELSE s
    IN  \/ body \in {<<"n", "a", "n">>, <<"i", "n", "f">>,
                     <<"i", "n", "f", "i", "n", "i", "t", "y">>}
        \/ IsDecimal(body)

\* float(v): "ok", or the exception it raises.
FloatOutcome(v) ==
    CASE v.t = "num"  -> "ok"
      [] v.t = "str"  -> IF IsFloatLiteral(v.chars) THEN "ok" ELSE "ValueError"
      [] v.t = "none" -> "TypeError"

\* assert 0 <= v <= 1: "ok", or the exception it raises.
RangeOutcome(v) ==
    CASE v.t = "num"  -> IF 0 <= v.num /\ v.num <= 10 THEN "ok" ELSE "AssertionError"
      [] v.t = "str"  -> "TypeError"
      [] v.t = "none" -> "TypeError"

\* strategy[k]: "ok", or KeyError.
ItemOutcome(s, k) == IF k \in DOMAIN s THEN "ok" ELSE "KeyError"

\* strategy.get(k, None)
Get(s, k) == IF k \in DOMAIN s THEN s[k] ELSE NoneV

----------------------------------------------------------------------------
\* Outcomes: a returned ValidationResult, or a raised exception

Exc(type, msg) == [type |-> type, msg |-> msg]
NoExc == Exc("none", "")

Outcome(kind, ok, msg, exc, consulted) ==
    [kind |-> kind, is_valid |-> ok, error_message |-> msg, exc |-> exc,
     riskConsulted |-> consulted]
NoOutcome == Outcome("none", FALSE, "", NoExc, FALSE)
StrategyValidationResult(ok, msg, consulted) == Outcome("result", ok, msg, NoExc, consulted)
\* str(e) of the exceptions the type check lets through.
ExcText(type) ==
    CASE type = "TypeError" -> "unsupported operand type"
      [] type = "KeyError"  -> "missing key"
      [] OTHER -> type
Raised(type, consulted) == Outcome("raise", FALSE, "", Exc(type, ExcText(type)), consulted)

MsgMissing == "Missing required fields in strategy."
MsgTypes == "Data type validation failed."
MsgRisk == "Strategy poses too high a risk."

----------------------------------------------------------------------------
\* StrategyValidator

RequiredFields == {"symbol", "entry_point", "exit_point", "risk_tolerance"}

HasRequiredFields(s) == \A f \in RequiredFields : f \in DOMAIN s

\* The statements of the try block, in order; the first one that raises
\* decides.
FirstFailure(outcomes) ==
    IF \E i \in 1..Len(outcomes) : outcomes[i] # "ok"
    THEN outcomes[CHOOSE i \in 1..Len(outcomes) :
                    /\ outcomes[i] # "ok"
                    /\ \A j \in 1..(i - 1) : outcomes[j] = "ok"]
    ELSE "ok"

ItemThen(s, k, outcome) == IF ItemOutcome(s, k) = "ok" THEN outcome ELSE "KeyError"

\* "True", "False", or the name of the exception that escapes
\* `except (ValueError, AssertionError)`.
ValidateDataTypes(s) ==
    LET first == FirstFailure(<<
            ItemThen(s, "entry_point", FloatOutcome(Get(s, "entry_point"))),
            ItemThen(s, "exit_point", FloatOutcome(Get(s, "exit_point"))),
            ItemThen(s, "risk_tolerance", RangeOutcome(Get(s, "risk_tolerance")))>>)
    IN  CASE first = "ok" -> "True"
          [] first \in {"ValueError", "AssertionError"} -> "False"
          [] OTHER -> first

\* The risk policy: a predicate over the strategy, here a cap on
\* risk_tolerance (in tenths).
AssessRisk(s) == s["risk_tolerance"].num <= riskCap

\* Mutant: the type check runs before the required-fields check.
ValidateTypesFirst(s) ==
    LET types == ValidateDataTypes(s) IN
    IF types = "False" THEN StrategyValidationResult(FALSE, MsgTypes, FALSE)
    ELSE IF types # "True" THEN Raised(types, FALSE)
    ELSE IF ~HasRequiredFields(s) THEN StrategyValidationResult(FALSE, MsgMissing, FALSE)
    ELSE IF ~AssessRisk(s) THEN StrategyValidationResult(FALSE, MsgRisk, TRUE)
    ELSE StrategyValidationResult(TRUE, "", TRUE)

\* Mutant: the risk predicate is consulted before the type check.
ValidateRiskBeforeTypes(s) ==
    IF ~HasRequiredFields(s) THEN StrategyValidationResult(FALSE, MsgMissing, FALSE)
    ELSE IF ~AssessRisk(s) THEN StrategyValidationResult(FALSE, MsgRisk, TRUE)
    ELSE LET types == ValidateDataTypes(s) IN
         IF types = "False" THEN StrategyValidationResult(FALSE, MsgTypes, TRUE)
         ELSE IF types # "True" THEN Raised(types, TRUE)
         ELSE StrategyValidationResult(TRUE, "", TRUE)

\* Mutant: the validator remembers what it accepted and rejects a repeat.
ValidateRejectsRepeats(s) ==
    IF \E i \in 1..Len(history) : history[i].validated.is_valid
    THEN StrategyValidationResult(FALSE, MsgRisk, TRUE)
    ELSE IF ~HasRequiredFields(s) THEN StrategyValidationResult(FALSE, MsgMissing, FALSE)
    ELSE LET types == ValidateDataTypes(s) IN
         IF types = "False" THEN StrategyValidationResult(FALSE, MsgTypes, FALSE)
         ELSE IF types # "True" THEN Raised(types, FALSE)
         ELSE IF ~AssessRisk(s) THEN StrategyValidationResult(FALSE, MsgRisk, TRUE)
         ELSE StrategyValidationResult(TRUE, "", TRUE)

Validate(s) ==
    IF ~HasRequiredFields(s) THEN StrategyValidationResult(FALSE, MsgMissing, FALSE)
    ELSE LET types == ValidateDataTypes(s) IN
         IF types = "False" THEN StrategyValidationResult(FALSE, MsgTypes, FALSE)
         ELSE IF types # "True" THEN Raised(types, FALSE)
         ELSE IF ~AssessRisk(s) THEN StrategyValidationResult(FALSE, MsgRisk, TRUE)
         ELSE StrategyValidationResult(TRUE, "", TRUE)

----------------------------------------------------------------------------
\* StrategyExecution

DigitChars == <<"0", "1", "2", "3", "4", "5", "6", "7", "8", "9">>

\* datetime.isoformat(): the clock reading written out as text.
IsoFormat(t) == <<"T", DigitChars[((t \div 10) % 10) + 1], DigitChars[(t % 10) + 1]>>

ExecutionParams(symbol, entry_point, exit_point, execution_time) ==
    [symbol |-> symbol, entry_point |-> entry_point, exit_point |-> exit_point,
     execution_time |-> execution_time]

MsgParams == "Missing required parameters in strategy."

\* Mutant: entry_point and exit_point change places in the record.
PrepareSwapsPoints(s, now) ==
    LET symbol == Get(s, "symbol")
        entry_point == Get(s, "entry_point")
        exit_point == Get(s, "exit_point")
    IN  IF ~(Truthy(symbol) /\ Truthy(entry_point) /\ Truthy(exit_point))
        THEN [exc |-> Exc("ValueError", MsgParams), params |-> <<>>]
        ELSE [exc |-> NoExc,
              params |-> <<ExecutionParams(symbol, exit_point, entry_point,
                                           Str(IsoFormat(now)))>>]

\* Mutant: the re-check tests `is None` instead of truthiness.
PrepareChecksNone(s, now) ==
    LET symbol == Get(s, "symbol")
        entry_point == Get(s, "entry_point")
        exit_point == Get(s, "exit_point")
    IN  IF symbol = NoneV \/ entry_point = NoneV \/ exit_point = NoneV
        THEN [exc |-> Exc("ValueError", MsgParams), params |-> <<>>]
        ELSE [exc |-> NoExc,
              params |-> <<ExecutionParams(symbol, entry_point, exit_point,
                                           Str(IsoFormat(now)))>>]

\* [exc, params]: the ValueError raised, or the record returned (as <<record>>).
PrepareExecutionParams(s, now) ==
    LET symbol == Get(s, "symbol")
        entry_point == Get(s, "entry_point")
        exit_point == Get(s, "exit_point")
    IN  IF ~(Truthy(symbol) /\ Truthy(entry_point) /\ Truthy(exit_point))
        THEN [exc |-> Exc("ValueError", MsgParams), params |-> <<>>]
        ELSE [exc |-> NoExc,
              params |-> <<ExecutionParams(symbol, entry_point, exit_point,
                                           Str(IsoFormat(now)))>>]

\* What executor.execute may raise (subclasses of Exception).
SinkErrors == {Exc("RuntimeError", "sink failure"), Exc("ConnectionError", "sink unreachable")}

LogRecord(logger, level, fmt, text) ==
    [logger |-> logger, level |-> level, fmt |-> fmt, text |-> text]

Returned(value) == [kind |-> "return", value |-> value, exc |-> NoExc]
RaisedToCaller(exc) == [kind |-> "raise", value |-> FALSE, exc |-> exc]
NoRet == [kind |-> "none", value |-> FALSE, exc |-> NoExc]

\* A reading of datetime.now(): the clock has not gone back since the last one.
Readings == {t \in clock..(clock + 1) : t <= MaxClock}

----------------------------------------------------------------------------
\* The strategies a caller may hold

Absent == Val("absent", <<>>, 0)
Keys == RequiredFields

SymbolOpts == {Absent, Str(<<"A", "A", "P", "L">>), Str(<<>>)}
EntryOpts == {Absent, Str(<<"1", "0", "0", ".", "0">>), Str(<<"a", "b", "c">>), Num(0), NoneV}
ExitOpts == {Absent, Str(<<"1", "1", "0", ".", "0">>), Str(<<"a", "b", "c">>), Num(0), NoneV}
RiskOpts == {Absent, Num(3), Num(15), NoneV}
RiskCaps == {2, 10}

MkStrategy(c) == [k \in {k \in Keys : c[k] # Absent} |-> c[k]]

Strategies ==
    {MkStrategy([symbol |-> sy, entry_point |-> en, exit_point |-> ex, risk_tolerance |-> ri]) :
        sy \in SymbolOpts, en \in EntryOpts, ex \in ExitOpts, ri \in RiskOpts}

----------------------------------------------------------------------------
\* State machine

Init ==
    /\ strategy \in Strategies
    /\ riskCap \in RiskCaps
    /\ pc = "idle"
    /\ op = "none"
    /\ validation_result = NoOutcome
    /\ execution_params = <<>>
    /\ pending = NoExc
    /\ ret = NoRet
    /\ log = <<>>
    /\ clock = 0
    /\ callClock = 0
    /\ prepEntered = 0
    /\ sinkCalls = <<>>
    /\ sinkRaised = FALSE
    /\ history = <<>>

Enter(method, first) ==
    /\ pc = "idle"
    /\ Len(history) < MaxCalls
    /\ pc' = first
    /\ op' = method
    /\ callClock' = clock
    /\ UNCHANGED <<strategy, riskCap, validation_result, execution_params, pending, ret,
                   log, clock, prepEntered, sinkCalls, sinkRaised, history>>

CallValidate == Enter("validate", "v_run")
CallExecuteStrategy == Enter("execute_strategy", "es_validate")
CallPrepare == Enter("_prepare_execution_params", "p_run")

\* validate's `except Exception` (lines 44-46): log, then re-raise.
ValidatorLog(out) ==
    IF out.kind = "raise"
    THEN Append(log, LogRecord("validator", "error", "Validation error: %s", out.exc.msg))
    ELSE log

\* validator.validate(strategy), called by the caller.
VRun ==
    /\ pc = "v_run"
    /\ LET out == Validate(strategy) IN
        /\ validation_result' = out
        /\ log' = ValidatorLog(out)
        /\ ret' = IF out.kind = "raise" THEN RaisedToCaller(out.exc) ELSE Returned(out.is_valid)
    /\ pc' = "done"
    /\ UNCHANGED <<strategy, riskCap, op, execution_params, pending, clock, callClock,
                   prepEntered, sinkCalls, sinkRaised, history>>

\* Line 34: validation_result = self.validator.validate(strategy)
EsValidate ==
    /\ pc = "es_validate"
    /\ LET out == Validate(strategy) IN
        /\ validation_result' = out
        /\ log' = ValidatorLog(out)
        /\ pending' = out.exc
        /\ pc' = IF out.kind = "raise" THEN "es_except" ELSE "es_check"
    /\ UNCHANGED <<strategy, riskCap, op, execution_params, ret, clock, callClock,
                   prepEntered, sinkCalls, sinkRaised, history>>

\* Mutant: the result is logged but never stops the call.
EsCheckIgnoresResult ==
    /\ pc = "es_check"
    /\ log' = IF ~validation_result.is_valid
              THEN Append(log, LogRecord("execution", "error",
                                  "Strategy validation failed. %s",
                                  validation_result.error_message))
              ELSE log
    /\ pc' = "es_prepare"
    /\ UNCHANGED <<strategy, riskCap, op, validation_result, execution_params, pending,
                   ret, clock, callClock, prepEntered, sinkCalls, sinkRaised, history>>

\* Mutant: a rejection is raised as StrategyValidationError instead of returned.
EsCheckRaisesOnInvalid ==
    /\ pc = "es_check"
    /\ IF ~validation_result.is_valid
       THEN /\ pending' = Exc("StrategyValidationError", validation_result.error_message)
            /\ pc' = "es_except"
       ELSE /\ pc' = "es_prepare"
            /\ UNCHANGED pending
    /\ UNCHANGED <<strategy, riskCap, op, validation_result, execution_params, ret, log,
                   clock, callClock, prepEntered, sinkCalls, sinkRaised, history>>

\* Lines 35-37: if not validation_result.is_valid: log, return False
EsCheck ==
    /\ pc = "es_check"
    /\ IF ~validation_result.is_valid
       THEN /\ log' = Append(log, LogRecord("execution", "error",
                                "Strategy validation failed. %s",
                                validation_result.error_message))
            /\ ret' = Returned(FALSE)
            /\ pc' = "done"
       ELSE /\ pc' = "es_prepare"
            /\ UNCHANGED <<log, ret>>
    /\ UNCHANGED <<strategy, riskCap, op, validation_result, execution_params, pending,
                   clock, callClock, prepEntered, sinkCalls, sinkRaised, history>>

\* Line 40: execution_params = self._prepare_execution_params(strategy)
EsPrepare ==
    /\ pc = "es_prepare"
    /\ \E now \in Readings :
        LET r == PrepareExecutionParams(strategy, now) IN
        /\ clock' = IF r.exc = NoExc THEN now ELSE clock
        /\ execution_params' = r.params
        /\ pending' = r.exc
        /\ pc' = IF r.exc = NoExc THEN "es_execute" ELSE "es_except"
    /\ prepEntered' = prepEntered + 1
    /\ UNCHANGED <<strategy, riskCap, op, validation_result, ret, log, callClock,
                   sinkCalls, sinkRaised, history>>

\* Mutant: a failed execute is tried a second time before giving up.
EsExecuteRetries ==
    /\ pc = "es_execute"
    /\ \/ /\ sinkCalls' = Append(sinkCalls, execution_params[1])
          /\ \E now \in Readings :
               /\ clock' = now
               /\ log' = Append(log, LogRecord("execution", "info",
                                   "Executed strategy successfully at %s.",
                                   IsoFormat(now)))
          /\ ret' = Returned(TRUE)
          /\ pc' = "done"
          /\ UNCHANGED <<pending, sinkRaised>>
       \/ /\ sinkCalls' = sinkCalls \o <<execution_params[1], execution_params[1]>>
          /\ \E e \in SinkErrors : pending' = e
          /\ sinkRaised' = TRUE
          /\ pc' = "es_except"
          /\ UNCHANGED <<clock, log, ret>>
    /\ UNCHANGED <<strategy, riskCap, op, validation_result, execution_params, callClock,
                   prepEntered, history>>

\* Lines 43-45: self.executor.execute(execution_params); log; return True
EsExecute ==
    /\ pc = "es_execute"
    /\ sinkCalls' = Append(sinkCalls, execution_params[1])
    /\ \/ /\ \E now \in Readings :
               /\ clock' = now
               /\ log' = Append(log, LogRecord("execution", "info",
                                   "Executed strategy successfully at %s.",
                                   IsoFormat(now)))
          /\ ret' = Returned(TRUE)
          /\ pc' = "done"
          /\ UNCHANGED <<pending, sinkRaised>>
       \/ /\ \E e \in SinkErrors : pending' = e
          /\ sinkRaised' = TRUE
          /\ pc' = "es_except"
          /\ UNCHANGED <<clock, log, ret>>
    /\ UNCHANGED <<strategy, riskCap, op, validation_result, execution_params, callClock,
                   prepEntered, history>>

\* Mutant: the exception is logged and swallowed; the call returns False.
EsExceptSwallows ==
    /\ pc = "es_except"
    /\ log' = Append(log, LogRecord("execution", "error",
                        "Exception occurred during strategy execution: %s", pending.msg))
    /\ ret' = Returned(FALSE)
    /\ pc' = "done"
    /\ UNCHANGED <<strategy, riskCap, op, validation_result, execution_params, pending,
                   clock, callClock, prepEntered, sinkCalls, sinkRaised, history>>

\* Lines 47-49: except Exception as e: log; raise
EsExcept ==
    /\ pc = "es_except"
    /\ log' = Append(log, LogRecord("execution", "error",
                        "Exception occurred during strategy execution: %s", pending.msg))
    /\ ret' = RaisedToCaller(pending)
    /\ pc' = "done"
    /\ UNCHANGED <<strategy, riskCap, op, validation_result, execution_params, pending,
                   clock, callClock, prepEntered, sinkCalls, sinkRaised, history>>

\* execution._prepare_execution_params(strategy), called by the caller.
PRun ==
    /\ pc = "p_run"
    /\ \E now \in Readings :
        LET r == PrepareExecutionParams(strategy, now) IN
        /\ clock' = IF r.exc = NoExc THEN now ELSE clock
        /\ execution_params' = r.params
        /\ ret' = IF r.exc = NoExc THEN Returned(TRUE) ELSE RaisedToCaller(r.exc)
    /\ prepEntered' = prepEntered + 1
    /\ pc' = "done"
    /\ UNCHANGED <<strategy, riskCap, op, validation_result, pending, log, callClock,
                   sinkCalls, sinkRaised, history>>

\* The call is over: the caller has its outcome, the locals are gone.
Return ==
    /\ pc = "done"
    /\ history' = Append(history, [op |-> op, ret |-> ret, validated |-> validation_result,
                                   params |-> execution_params, sink |-> Len(sinkCalls)])
    /\ pc' = "idle"
    /\ op' = "none"
    /\ validation_result' = NoOutcome
    /\ execution_params' = <<>>
    /\ pending' = NoExc
    /\ ret' = NoRet
    /\ prepEntered' = 0
    /\ sinkCalls' = <<>>
    /\ sinkRaised' = FALSE
    /\ UNCHANGED <<strategy, riskCap, log, clock, callClock>>

Next ==
    \/ CallValidate
    \/ CallExecuteStrategy
    \/ CallPrepare
    \/ VRun
    \/ EsValidate
    \/ EsCheck
    \/ EsPrepare
    \/ EsExecute
    \/ EsExcept
    \/ PRun
    \/ Return

Spec == Init /\ [][Next]_vars

----------------------------------------------------------------------------
\* Vocabulary of the properties

InExecuteStrategy == op = "execute_strategy"
Validated == validation_result.kind # "none"
Rejected == validation_result.kind = "result" /\ ~validation_result.is_valid
Accepted == validation_result.kind = "result" /\ validation_result.is_valid

ParamKeys == {"symbol", "entry_point", "exit_point"}
AbsentOrFalsy(s) == \E k \in ParamKeys : k \notin DOMAIN s \/ ~Truthy(s[k])

PassesTypes(s) ==
    /\ FloatOutcome(s["entry_point"]) = "ok"
    /\ FloatOutcome(s["exit_point"]) = "ok"
    /\ RangeOutcome(s["risk_tolerance"]) = "ok"
PassesAllChecks(s) == HasRequiredFields(s) /\ PassesTypes(s) /\ AssessRisk(s)

\* A timestamp read from the clock during the current call.
FreshStamp(v) == \E t \in callClock..clock : v = Str(IsoFormat(t))

\* The record the sink must receive for strategy s.
CarriesStrategy(p, s) ==
    /\ p.symbol = s["symbol"]
    /\ p.entry_point = s["entry_point"]
    /\ p.exit_point = s["exit_point"]
    /\ FreshStamp(p.execution_time)

LastLog == log[Len(log)]
ExceptLog(e) ==
    LogRecord("execution", "error", "Exception occurred during strategy execution: %s", e.msg)

----------------------------------------------------------------------------
\* C1: inside execute_strategy, parameter preparation is entered, params
\* exist and the sink is called only after the validator returned a valid
\* result in the same call; never after an invalid result or a raise.
C1_PrepareOnlyAfterValid ==
    (/\ InExecuteStrategy
     /\ \/ pc \in {"es_prepare", "es_execute"}
        \/ prepEntered > 0
        \/ execution_params # <<>>
        \/ sinkCalls # <<>>)
    => Accepted

C1_Witness ==
    /\ InExecuteStrategy
    /\ pc = "es_execute"
    /\ prepEntered = 1
    /\ execution_params # <<>>

\* C2 as stated: every strategy passing the three checks is valid with an
\* empty message, reaches the sink exactly once with its own symbol, entry
\* and exit plus a fresh timestamp, and (the sink not raising) returns True.
C2_Original ==
    (InExecuteStrategy /\ pc = "done" /\ PassesAllChecks(strategy) /\ ~sinkRaised)
    => /\ validation_result = StrategyValidationResult(TRUE, "", TRUE)
       /\ Len(sinkCalls) = 1
       /\ CarriesStrategy(sinkCalls[1], strategy)
       /\ ret = Returned(TRUE)

\* C2 amended: the same, for the strategies whose symbol, entry_point and
\* exit_point are all truthy; and every strategy passing the three checks is
\* valid with an empty message.
C2_Amended ==
    /\ (Validated /\ PassesAllChecks(strategy))
       => validation_result = StrategyValidationResult(TRUE, "", TRUE)
    /\ (/\ InExecuteStrategy
        /\ pc = "done"
        /\ PassesAllChecks(strategy)
        /\ ~AbsentOrFalsy(strategy)
        /\ ~sinkRaised)
       => /\ Len(sinkCalls) = 1
          /\ CarriesStrategy(sinkCalls[1], strategy)
          /\ ret = Returned(TRUE)

C2_Witness ==
    /\ InExecuteStrategy
    /\ pc = "done"
    /\ PassesAllChecks(strategy)
    /\ ret = Returned(TRUE)
    /\ Len(sinkCalls) = 1
    /\ sinkCalls[1].execution_time = Str(IsoFormat(1))
    /\ callClock = 0

\* C3: when the validator returns an invalid result, execute_strategy
\* returns False normally, and neither parameter preparation nor the sink
\* is invoked in that call.
C3_RejectionReturnsFalse ==
    (InExecuteStrategy /\ Rejected)
    => /\ pc \in {"es_check", "done"}
       /\ pc = "done" => ret = Returned(FALSE)
       /\ prepEntered = 0
       /\ execution_params = <<>>
       /\ sinkCalls = <<>>
       /\ pending = NoExc

C3_Witness ==
    /\ InExecuteStrategy
    /\ pc = "done"
    /\ Rejected
    /\ ret = Returned(FALSE)

\* C4: with all four keys present, a non-numeric entry_point or exit_point
\* (whatever its type) or a risk_tolerance outside [0,1] makes validate
\* return the invalid result "Data type validation failed.", not raise.
C4_TypeFailureIsAResult ==
    (/\ op = "validate"
     /\ pc = "done"
     /\ HasRequiredFields(strategy)
     /\ \/ FloatOutcome(strategy["entry_point"]) # "ok"
        \/ FloatOutcome(strategy["exit_point"]) # "ok"
        \/ RangeOutcome(strategy["risk_tolerance"]) = "AssertionError")
    => /\ validation_result = StrategyValidationResult(FALSE, MsgTypes, FALSE)
       /\ ret = Returned(FALSE)

\* C5: a strategy missing any required key is invalid with "Missing
\* required fields in strategy.", whatever the values of the keys present.
C5_MissingFieldFirst ==
    (Validated /\ ~HasRequiredFields(strategy))
    => /\ validation_result = StrategyValidationResult(FALSE, MsgMissing, FALSE)
       /\ op = "validate" /\ pc = "done" => ret = Returned(FALSE)

C5_Witness ==
    /\ op = "validate"
    /\ pc = "done"
    /\ "risk_tolerance" \notin DOMAIN strategy
    /\ "entry_point" \in DOMAIN strategy
    /\ strategy["entry_point"] = NoneV
    /\ validation_result.error_message = MsgMissing

\* C6: an exception raised by parameter preparation or by the sink is
\* logged and re-raised unmodified; execute_strategy returns False only on a
\* validation rejection and returns nothing when such an exception occurred.
C6_FailuresPropagate ==
    (InExecuteStrategy /\ pc = "done")
    => /\ (sinkRaised \/ (prepEntered > 0 /\ execution_params = <<>>))
          => /\ ret = RaisedToCaller(pending)
             /\ pending \in SinkErrors \cup {Exc("ValueError", MsgParams)}
             /\ sinkRaised <=> pending \in SinkErrors
             /\ LastLog = ExceptLog(pending)
       /\ ret = Returned(FALSE) => (Rejected /\ prepEntered = 0 /\ ~sinkRaised)

C6_Witness ==
    /\ InExecuteStrategy
    /\ pc = "done"
    /\ sinkRaised
    /\ ret.kind = "raise"

\* C7: a strategy passing the required-fields and type/range checks but
\* failing the risk predicate is invalid with "Strategy poses too high a
\* risk."; the predicate is consulted only after both checks have passed.
C7_RiskCheckedLast ==
    Validated
    => /\ (HasRequiredFields(strategy) /\ PassesTypes(strategy) /\ ~AssessRisk(strategy))
          => validation_result = StrategyValidationResult(FALSE, MsgRisk, TRUE)
       /\ validation_result.riskConsulted
          => (HasRequiredFields(strategy) /\ PassesTypes(strategy))

C7_Witness ==
    /\ op = "validate"
    /\ pc = "done"
    /\ validation_result.error_message = MsgRisk
    /\ ret = Returned(FALSE)

\* C8: every validate of the unchanged strategy, whatever calls came in
\* between, has the same outcome: the same is_valid and error_message, or
\* the same raised error.
ValidateOutcomes ==
    ({history[i].validated : i \in 1..Len(history)} \cup {validation_result}) \ {NoOutcome}

C9_PrepareRecheck ==
    prepEntered > 0
    => /\ execution_params = <<>> <=> AbsentOrFalsy(strategy)
       /\ execution_params = <<>>
          => /\ InExecuteStrategy => pending = Exc("ValueError", MsgParams)
             /\ pc = "done" => ret = RaisedToCaller(Exc("ValueError", MsgParams))
       /\ execution_params # <<>>
          => /\ Len(execution_params) = 1
             /\ CarriesStrategy(execution_params[1], strategy)
             /\ ~InExecuteStrategy => ret = Returned(TRUE)

C9_Witness ==
    /\ InExecuteStrategy
    /\ Accepted
    /\ prepEntered = 1
    /\ pending = Exc("ValueError", MsgParams)
    /\ pc = "done"

\* C10: execute_strategy calls the sink at most once, returns True only
\* when that one call returned without raising, and when the validator
\* raises, logs and re-raises the error without calling the sink.
C10_SinkAtMostOnce ==
    InExecuteStrategy
    => /\ Len(sinkCalls) <= 1
       /\ ret = Returned(TRUE) => (Len(sinkCalls) = 1 /\ ~sinkRaised)
       /\ (validation_result.kind = "raise" /\ pc = "done")
          => /\ ret = RaisedToCaller(validation_result.exc)
             /\ LastLog = ExceptLog(validation_result.exc)
             /\ sinkCalls = <<>>
             /\ prepEntered = 0

C10_Witness ==
    /\ InExecuteStrategy
    /\ pc = "done"
    /\ validation_result.kind = "raise"
    /\ validation_result.exc.type = "TypeError"
    /\ ret.kind = "raise"

====
